---- MODULE Spec2Model ----
(***************************************************************************)
(* Model of api-fuzzkit's pre-flight guardrails (src/main.rs).             *)
(*                                                                         *)
(* Rust Strings are sequences of one-character strings, so that parsing    *)
(* and case folding are computed character by character.                   *)
(* Two specifications:                                                     *)
(*   Spec    the process: init_logging, Args::parse, load_profile,         *)
(*           enforce_guardrails, session hand-off (fn main);               *)
(*   SpecFn  enforce_guardrails called on any Profile and any Args.        *)
(***************************************************************************)
EXTENDS Integers, Sequences, FiniteSets, TLC

VARIABLES cmdline, fs, pc, args, profile, verdict, result, out

vars == <<cmdline, fs, pc, args, profile, verdict, result, out>>

\* Option::None of a String
None == <<"None">>

\* a local of main or of the caller that is not bound yet
Unset == [unset |-> TRUE]

\* ------------------------------------------------------------------------
\* Bounds of the model
\* ------------------------------------------------------------------------
MaxRate == 2

MaxBudget == 1

\* ------------------------------------------------------------------------
\* Characters and strings
\* ------------------------------------------------------------------------
UpperAlpha == <<"A","B","C","D","E","F","G","H","I","J","K","L","M",
                "N","O","P","Q","R","S","T","U","V","W","X","Y","Z">>

LowerAlpha == <<"a","b","c","d","e","f","g","h","i","j","k","l","m",
                "n","o","p","q","r","s","t","u","v","w","x","y","z">>

Digits == {"0","1","2","3","4","5","6","7","8","9"}

Alpha == { UpperAlpha[i] : i \in 1..26 } \cup { LowerAlpha[i] : i \in 1..26 }

IsAlpha(c) == c \in Alpha

IsDigit(c) == c \in Digits

\* u8::to_ascii_lowercase: only A-Z change
AsciiLower == [c \in { UpperAlpha[i] : i \in 1..26 } |->
                  LowerAlpha[CHOOSE i \in 1..26 : UpperAlpha[i] = c]]

to_ascii_lowercase(c) == IF c \in DOMAIN AsciiLower THEN AsciiLower[c] ELSE c

LowerStr(s) == [i \in 1..Len(s) |-> to_ascii_lowercase(s[i])]

\* variant: == on the two strings
eq_exact(a, b) == a = b

\* str::eq_ignore_ascii_case: same length and bytes equal after ASCII folding
eq_ignore_ascii_case(a, b) ==
    /\ Len(a) = Len(b)
    /\ \A i \in 1..Len(a) : to_ascii_lowercase(a[i]) = to_ascii_lowercase(b[i])

\* Iterator::any over a Vec<String>
any_eq_ignore_case(list, s) ==
    \E i \in 1..Len(list) : eq_ignore_ascii_case(list[i], s)

\* index of the first character of s in set cs, Len(s)+1 when there is none
FirstIn(s, cs) ==
    LET at == { i \in 1..Len(s) : s[i] \in cs } IN
    IF at = {} THEN Len(s) + 1 ELSE CHOOSE i \in at : \A j \in at : i <= j

\* index of the first character of s not in set cs, Len(s)+1 when there is none
FirstNotIn(s, cs) ==
    IF \E i \in 1..Len(s) : s[i] \notin cs
    THEN CHOOSE i \in 1..Len(s) : s[i] \notin cs /\ \A j \in 1..(i-1) : s[j] \in cs
    ELSE Len(s) + 1

\* index of the last character of s in set cs, 0 when there is none
LastIn(s, cs) ==
    LET at == { i \in 1..Len(s) : s[i] \in cs } IN
    IF at = {} THEN 0 ELSE CHOOSE i \in at : \A j \in at : i >= j

\* ------------------------------------------------------------------------
\* url::Url::parse and Url::host_str, for ASCII input without IP literals,
\* percent-escapes or control characters
\* ------------------------------------------------------------------------
http == <<"h","t","t","p">>

https == <<"h","t","t","p","s">>

SpecialSchemes == { http, https, <<"w","s">>, <<"w","s","s">>, <<"f","t","p">> }

\* position of the ':' that ends a scheme (ALPHA *(ALPHA / DIGIT / + - .)), or 0
SchemeEnd(s) ==
    LET i == FirstIn(s, {":"}) IN
    IF /\ i <= Len(s)
       /\ i > 1
       /\ IsAlpha(s[1])
       /\ \A j \in 2..(i-1) : IsAlpha(s[j]) \/ IsDigit(s[j]) \/ s[j] \in {"+", "-", "."}
    THEN i
    ELSE 0

\* characters a domain may hold here
IsHostChar(c) == IsAlpha(c) \/ IsDigit(c) \/ c \in {".", "-", "_"}

\* host part of an authority: after the last '@', before the port's ':'
HostPort(auth) == SubSeq(auth, LastIn(auth, {"@"}) + 1, Len(auth))

HostOfAuthority(auth) ==
    LET hp == HostPort(auth) IN SubSeq(hp, 1, FirstIn(hp, {":"}) - 1)

PortOfAuthority(auth) ==
    LET hp == HostPort(auth) IN SubSeq(hp, FirstIn(hp, {":"}) + 1, Len(hp))

UrlErr(kind) == [ok |-> FALSE, error |-> kind]

UrlOk(scheme, host) == [ok |-> TRUE, scheme |-> scheme, host |-> host]

Url_parse(s) ==
    LET i == SchemeEnd(s) IN
    IF i = 0 THEN UrlErr("RelativeUrlWithoutBase")
    ELSE
      LET scheme == LowerStr(SubSeq(s, 1, i - 1))
          rest   == SubSeq(s, i + 1, Len(s))
      IN
      IF scheme \in SpecialSchemes
      THEN \* special scheme: any run of slashes, then the authority
        LET r    == SubSeq(rest, FirstNotIn(rest, {"/", "\\"}), Len(rest))
            auth == SubSeq(r, 1, FirstIn(r, {"/", "\\", "?", "#"}) - 1)
            host == HostOfAuthority(auth)
            port == PortOfAuthority(auth)
        IN
        IF host = <<>> THEN UrlErr("EmptyHost")
        ELSE IF \E k \in 1..Len(port) : ~IsDigit(port[k]) THEN UrlErr("InvalidPort")
        ELSE IF \E k \in 1..Len(host) : ~IsHostChar(host[k])
             THEN UrlErr("InvalidDomainCharacter")
        ELSE UrlOk(scheme, LowerStr(host))
      ELSE IF Len(rest) >= 2 /\ rest[1] = "/" /\ rest[2] = "/"
      THEN \* other scheme with an authority: opaque host, case kept
        LET r    == SubSeq(rest, 3, Len(rest))
            auth == SubSeq(r, 1, FirstIn(r, {"/", "?", "#"}) - 1)
            host == HostOfAuthority(auth)
            port == PortOfAuthority(auth)
        IN
        IF \E k \in 1..Len(port) : ~IsDigit(port[k]) THEN UrlErr("InvalidPort")
        ELSE IF \E k \in 1..Len(host) : ~IsHostChar(host[k])
             THEN UrlErr("InvalidDomainCharacter")
        ELSE UrlOk(scheme, IF host = <<>> THEN None ELSE host)
      ELSE \* no authority (mailto:, data:, ...): the URL has no host
        UrlOk(scheme, None)

\* Url::host_str
host_str(u) == u.host

\* ------------------------------------------------------------------------
\* Results (anyhow::Result)
\* ------------------------------------------------------------------------
Ok == [ok |-> TRUE]

\* bail!(msg) / anyhow!(msg): the message text and the value formatted into it
Err(msg, arg) == [ok |-> FALSE, msg |-> msg, arg |-> arg]

\* ------------------------------------------------------------------------
\* struct Args and Args::parse() (clap derive)
\* ------------------------------------------------------------------------
DefaultProfilePath == "profiles/kra-sandbox.toml"

KnownFlags == {"--sandbox", "--dry-run"}

\* default_value_t of the two bool flags
SandboxDefault == TRUE

DryRunDefault == FALSE

\* a bool field is an ArgAction::SetTrue flag: TRUE when the flag is given,
\* otherwise its default value
SetTrue(flag, cl, default) == IF flag \in cl THEN TRUE ELSE default

Args_parse(cl) ==
    [profile |-> DefaultProfilePath,
     sandbox |-> SetTrue("--sandbox", cl, SandboxDefault),
     dry_run |-> SetTrue("--dry-run", cl, DryRunDefault)]

\* ------------------------------------------------------------------------
\* struct Profile, Limits, Timeouts, Safety and the inputs of the model
\* ------------------------------------------------------------------------
good_example == <<"g","o","o","d",".","e","x","a","m","p","l","e">>

Good_Example == <<"G","o","o","d",".","E","x","a","m","p","l","e">>

other_example == <<"o","t","h","e","r",".","e","x","a","m","p","l","e">>

GET == <<"G","E","T">>

get == <<"g","e","t">>

POST == <<"P","O","S","T">>

DELETE == <<"D","E","L","E","T","E">>

BaseUrls ==
    { https \o <<":","/","/">> \o good_example,
      https \o <<":","/","/">> \o Good_Example \o <<"/","v","1">>,
      http \o <<":","/","/">> \o other_example \o <<":","8","0","8","0">>,
      <<"g","i","t",":","/","/">> \o Good_Example,
      <<"n","o","t"," ","a"," ","u","r","l">>,
      <<"m","a","i","l","t","o",":">> \o good_example }

HostLists ==
    { <<>>, <<good_example>>, <<Good_Example>>, <<other_example>>,
      <<other_example, good_example>> }

Methods == { GET, get, DELETE }

MethodLists == { <<>>, <<GET>>, <<get>>, <<GET, POST>> }

\* a HashMap<String, String> is its set of <<key, value>> entries
EmptyMap == {}

SandboxHeader == { <<"X-Sandbox", "1">> }

\* an optional key of the document
Absent == [present |-> FALSE]

Present(v) == [present |-> TRUE, value |-> v]

\* fields enforce_guardrails never reads, as they stand in the TOML document
OtherDocFields ==
    { [name |-> "demo", endpoint |-> "/v1/ping", concurrency |-> 1,
       connect_ms |-> 1000, read_ms |-> 5000, force_headers |-> Absent],
      [name |-> "kra-sandbox", endpoint |-> "/api", concurrency |-> 4,
       connect_ms |-> 0, read_ms |-> 0,
       force_headers |-> Present(SandboxHeader)] }

\* every value of those fields, for comparing evaluations
OtherFields ==
    [name : {"demo", "kra-sandbox"}, endpoint : {"/v1/ping", "/api"},
     concurrency : {1, 4}, connect_ms : {0, 1000}, read_ms : {0, 5000},
     force_headers : {EmptyMap, SandboxHeader}]

MkProfile(o, url, m, rate, budget, maxrate, ms, req, hosts) ==
    [name     |-> o.name,
     base_url |-> url,
     endpoint |-> o.endpoint,
     method   |-> m,
     limits   |-> [concurrency |-> o.concurrency, rate_per_sec |-> rate,
                   request_budget |-> budget, max_rate_per_sec |-> maxrate,
                   allowed_methods |-> ms],
     timeouts |-> [connect_ms |-> o.connect_ms, read_ms |-> o.read_ms],
     safety   |-> [require_sandbox_flag |-> req, allowlist_hosts |-> hosts,
                   force_headers |-> o.force_headers]]

\* well-typed TOML documents: every required key present, u32 values
Docs ==
    { MkProfile(o, url, m, rate, budget, maxrate, ms, req, hosts) :
        o \in OtherDocFields, url \in BaseUrls, m \in Methods,
        rate \in 0..MaxRate, budget \in 0..MaxBudget, maxrate \in 0..MaxRate,
        ms \in MethodLists, req \in BOOLEAN, hosts \in HostLists }

\* toml::from_str::<Profile>: #[serde(default)] fills a missing force_headers
toml_from_str(doc) ==
    [doc EXCEPT !.safety.force_headers = IF @.present THEN @.value ELSE EmptyMap]

Profiles == { toml_from_str(d) : d \in Docs }

\* the file at the profile path: unreadable, not a Profile, or a document
Files == { [kind |-> "unreadable"], [kind |-> "malformed"] }
         \cup { [kind |-> "toml", doc |-> d] : d \in Docs }

\* ------------------------------------------------------------------------
\* fn load_profile
\* ------------------------------------------------------------------------
load_profile(path, file) ==
    IF file.kind = "unreadable" THEN Err("failed to read profile: {path}", path)
    ELSE IF file.kind = "malformed" THEN Err("invalid TOML in profile", None)
    ELSE [ok |-> TRUE, value |-> toml_from_str(file.doc)]

\* ------------------------------------------------------------------------
\* fn enforce_guardrails
\* ------------------------------------------------------------------------
\* Url::parse(&p.base_url).ok().and_then(|u| u.host_str()...)
\* variant: .unwrap_or_default() in place of ok_or_else(..)?
parsed_host_or_default(p) ==
    LET u == Url_parse(p.base_url) IN
    IF u.ok /\ host_str(u) # None THEN host_str(u) ELSE <<>>

parsed_host(p) ==
    LET u == Url_parse(p.base_url) IN IF u.ok THEN host_str(u) ELSE None

\* variant: the budget check moved in front of the method check
enforce_guardrails_budget_first(p, a) ==
    IF p.safety.require_sandbox_flag /\ ~a.sandbox
    THEN Err("sandbox flag required: re-run with --sandbox", None)
    ELSE LET host == parsed_host(p) IN
    IF host = None
    THEN Err("invalid base_url: {}", p.base_url)
    ELSE IF ~any_eq_ignore_case(p.safety.allowlist_hosts, host)
    THEN Err("base_url host not in allowlist: {host}", host)
    ELSE IF p.limits.request_budget = 0
    THEN Err("request_budget must be > 0", None)
    ELSE IF ~any_eq_ignore_case(p.limits.allowed_methods, p.method)
    THEN Err("HTTP method '{}' not allowed by policy", p.method)
    ELSE IF p.limits.rate_per_sec > p.limits.max_rate_per_sec
    THEN Err("rate_per_sec exceeds policy ceiling", None)
    ELSE IF p.limits.request_budget = 0
    THEN Err("request_budget must be > 0", None)
    ELSE Ok

\* variant: the sandbox check made after the host checks
enforce_guardrails_sandbox_last(p, a) ==
    LET host == parsed_host(p) IN
    IF host = None
    THEN Err("invalid base_url: {}", p.base_url)
    ELSE IF ~any_eq_ignore_case(p.safety.allowlist_hosts, host)
    THEN Err("base_url host not in allowlist: {host}", host)
    ELSE IF p.safety.require_sandbox_flag /\ ~a.sandbox
    THEN Err("sandbox flag required: re-run with --sandbox", None)
    ELSE IF ~any_eq_ignore_case(p.limits.allowed_methods, p.method)
    THEN Err("HTTP method '{}' not allowed by policy", p.method)
    ELSE IF p.limits.rate_per_sec > p.limits.max_rate_per_sec
    THEN Err("rate_per_sec exceeds policy ceiling", None)
    ELSE IF p.limits.request_budget = 0
    THEN Err("request_budget must be > 0", None)
    ELSE Ok

\* variant: the budget check left out
enforce_guardrails_no_budget(p, a) ==
    IF p.safety.require_sandbox_flag /\ ~a.sandbox
    THEN Err("sandbox flag required: re-run with --sandbox", None)
    ELSE LET host == parsed_host(p) IN
    IF host = None
    THEN Err("invalid base_url: {}", p.base_url)
    ELSE IF ~any_eq_ignore_case(p.safety.allowlist_hosts, host)
    THEN Err("base_url host not in allowlist: {host}", host)
    ELSE IF ~any_eq_ignore_case(p.limits.allowed_methods, p.method)
    THEN Err("HTTP method '{}' not allowed by policy", p.method)
    ELSE IF p.limits.rate_per_sec > p.limits.max_rate_per_sec
    THEN Err("rate_per_sec exceeds policy ceiling", None)
    ELSE Ok

\* variant: the method looked up with Vec::contains, case-sensitively
enforce_guardrails_exact_method(p, a) ==
    IF p.safety.require_sandbox_flag /\ ~a.sandbox
    THEN Err("sandbox flag required: re-run with --sandbox", None)
    ELSE LET host == parsed_host(p) IN
    IF host = None
    THEN Err("invalid base_url: {}", p.base_url)
    ELSE IF ~any_eq_ignore_case(p.safety.allowlist_hosts, host)
    THEN Err("base_url host not in allowlist: {host}", host)
    ELSE IF ~(\E i \in 1..Len(p.limits.allowed_methods) : p.limits.allowed_methods[i] = p.method)
    THEN Err("HTTP method '{}' not allowed by policy", p.method)
    ELSE IF p.limits.rate_per_sec > p.limits.max_rate_per_sec
    THEN Err("rate_per_sec exceeds policy ceiling", None)
    ELSE IF p.limits.request_budget = 0
    THEN Err("request_budget must be > 0", None)
    ELSE Ok

\* variant: the rate compared with >=
enforce_guardrails_strict_rate(p, a) ==
    IF p.safety.require_sandbox_flag /\ ~a.sandbox
    THEN Err("sandbox flag required: re-run with --sandbox", None)
    ELSE LET host == parsed_host(p) IN
    IF host = None
    THEN Err("invalid base_url: {}", p.base_url)
    ELSE IF ~any_eq_ignore_case(p.safety.allowlist_hosts, host)
    THEN Err("base_url host not in allowlist: {host}", host)
    ELSE IF ~any_eq_ignore_case(p.limits.allowed_methods, p.method)
    THEN Err("HTTP method '{}' not allowed by policy", p.method)
    ELSE IF p.limits.rate_per_sec >= p.limits.max_rate_per_sec
    THEN Err("rate_per_sec exceeds policy ceiling", None)
    ELSE IF p.limits.request_budget = 0
    THEN Err("request_budget must be > 0", None)
    ELSE Ok

\* variant: a dry run skips the budget check
enforce_guardrails_dry_run_bypass(p, a) ==
    IF p.safety.require_sandbox_flag /\ ~a.sandbox
    THEN Err("sandbox flag required: re-run with --sandbox", None)
    ELSE LET host == parsed_host(p) IN
    IF host = None
    THEN Err("invalid base_url: {}", p.base_url)
    ELSE IF ~any_eq_ignore_case(p.safety.allowlist_hosts, host)
    THEN Err("base_url host not in allowlist: {host}", host)
    ELSE IF ~any_eq_ignore_case(p.limits.allowed_methods, p.method)
    THEN Err("HTTP method '{}' not allowed by policy", p.method)
    ELSE IF p.limits.rate_per_sec > p.limits.max_rate_per_sec
    THEN Err("rate_per_sec exceeds policy ceiling", None)
    ELSE IF ~a.dry_run /\ p.limits.request_budget = 0
    THEN Err("request_budget must be > 0", None)
    ELSE Ok

enforce_guardrails(p, a) ==
    IF p.safety.require_sandbox_flag /\ ~a.sandbox
    THEN Err("sandbox flag required: re-run with --sandbox", None)
    ELSE LET host == parsed_host(p) IN
    IF host = None
    THEN Err("invalid base_url: {}", p.base_url)
    ELSE IF ~any_eq_ignore_case(p.safety.allowlist_hosts, host)
    THEN Err("base_url host not in allowlist: {host}", host)
    ELSE IF ~any_eq_ignore_case(p.limits.allowed_methods, p.method)
    THEN Err("HTTP method '{}' not allowed by policy", p.method)
    ELSE IF p.limits.rate_per_sec > p.limits.max_rate_per_sec
    THEN Err("rate_per_sec exceeds policy ceiling", None)
    ELSE IF p.limits.request_budget = 0
    THEN Err("request_budget must be > 0", None)
    ELSE Ok

\* ------------------------------------------------------------------------
\* fn main, one action per statement
\* ------------------------------------------------------------------------
Init ==
    /\ cmdline \in (SUBSET KnownFlags) \cup {{"--unknown"}}
    /\ fs \in Files
    /\ pc = "init_logging"
    /\ args = Unset
    /\ profile = Unset
    /\ verdict = Unset
    /\ result = Unset
    /\ out = <<>>

\* init_logging(): installs the subscriber, nothing else
InitLogging ==
    /\ pc = "init_logging"
    /\ pc' = "parse_args"
    /\ UNCHANGED <<cmdline, fs, args, profile, verdict, result, out>>

\* Args::parse(): exits the process with a usage error on an unknown argument
ParseArgs ==
    /\ pc = "parse_args"
    /\ IF cmdline \subseteq KnownFlags
       THEN /\ args' = Args_parse(cmdline)
            /\ pc' = "load_profile"
            /\ UNCHANGED result
       ELSE /\ result' = Err("usage", None)
            /\ pc' = "exit"
            /\ UNCHANGED args
    /\ UNCHANGED <<cmdline, fs, profile, verdict, out>>

\* let profile = load_profile(&args.profile)?;
LoadProfile ==
    /\ pc = "load_profile"
    /\ LET r == load_profile(args.profile, fs) IN
       IF r.ok
       THEN /\ profile' = r.value
            /\ pc' = "enforce_guardrails"
            /\ UNCHANGED result
       ELSE /\ result' = r
            /\ pc' = "exit"
            /\ UNCHANGED profile
    /\ UNCHANGED <<cmdline, fs, args, verdict, out>>

\* variant: the Result of enforce_guardrails dropped instead of propagated
Guard_ignoring_result ==
    /\ pc = "enforce_guardrails"
    /\ verdict' = enforce_guardrails(profile, args)
    /\ pc' = "session"
    /\ UNCHANGED <<cmdline, fs, args, profile, result, out>>

\* enforce_guardrails(&profile, &args)?;
Guard ==
    /\ pc = "enforce_guardrails"
    /\ verdict' = enforce_guardrails(profile, args)
    /\ IF verdict'.ok
       THEN /\ pc' = "session"
            /\ UNCHANGED result
       ELSE /\ result' = verdict'
            /\ pc' = "exit"
    /\ UNCHANGED <<cmdline, fs, args, profile, out>>

\* tracing::info!("guardrails OK; {} mode"), the println! and Ok(())
HandOff ==
    /\ pc = "session"
    /\ out' = out \o
         << [kind |-> "info", target |-> "session", name |-> profile.name,
             base |-> profile.base_url, endpoint |-> profile.endpoint,
             method |-> profile.method,
             budget |-> profile.limits.request_budget,
             rate |-> profile.limits.rate_per_sec,
             concurrency |-> profile.limits.concurrency,
             message |-> "guardrails OK; {} mode",
             mode |-> IF args.dry_run THEN "dry-run" ELSE "execution"],
            [kind |-> "println",
             message |-> IF args.dry_run
                 THEN "(dry-run) Ready to plan test cases. No requests will be sent."
                 ELSE "Execution would start here (transport not wired yet)."] >>
    /\ result' = Ok
    /\ pc' = "exit"
    /\ UNCHANGED <<cmdline, fs, args, profile, verdict>>

Next == InitLogging \/ ParseArgs \/ LoadProfile \/ Guard \/ HandOff

Spec == Init /\ [][Next]_vars

\* ------------------------------------------------------------------------
\* enforce_guardrails called directly on any Profile and any Args
\* ------------------------------------------------------------------------
ArgsValues == [profile : {DefaultProfilePath}, sandbox : BOOLEAN, dry_run : BOOLEAN]

InitFn ==
    /\ cmdline = {}
    /\ fs = [kind |-> "unreadable"]
    /\ pc = "fn_call"
    /\ args \in ArgsValues
    /\ profile \in Profiles
    /\ verdict = Unset
    /\ result = Unset
    /\ out = <<>>

\* the call returns its Result; its arguments are shared borrows
Evaluate ==
    /\ pc = "fn_call"
    /\ verdict' = enforce_guardrails(profile, args)
    /\ pc' = "fn_return"
    /\ UNCHANGED <<cmdline, fs, args, profile, result, out>>

NextFn == Evaluate

SpecFn == InitFn /\ [][NextFn]_vars

\* ------------------------------------------------------------------------
\* Vocabulary of the properties
\* ------------------------------------------------------------------------
\* the six checks in their documented order
CheckOrder ==
    << "SandboxRequired", "InvalidBaseUrl", "HostNotAllowed",
       "MethodNotAllowed", "RateCeilingExceeded", "EmptyBudget" >>

\* the outcome a Result stands for
Kind(v) ==
    IF v.ok THEN "Permitted"
    ELSE CASE v.msg = "sandbox flag required: re-run with --sandbox" -> "SandboxRequired"
           [] v.msg = "invalid base_url: {}" -> "InvalidBaseUrl"
           [] v.msg = "base_url host not in allowlist: {host}" -> "HostNotAllowed"
           [] v.msg = "HTTP method '{}' not allowed by policy" -> "MethodNotAllowed"
           [] v.msg = "rate_per_sec exceeds policy ceiling" -> "RateCeilingExceeded"
           [] v.msg = "request_budget must be > 0" -> "EmptyBudget"
           [] OTHER -> "Other"

SameIgnoringCase(a, b) == LowerStr(a) = LowerStr(b)

Listed(list, s) == \E i \in 1..Len(list) : SameIgnoringCase(list[i], s)

SandboxPasses(p, a) == ~p.safety.require_sandbox_flag \/ a.sandbox

UrlHasHost(p) == LET u == Url_parse(p.base_url) IN u.ok /\ u.host # None

HostOf(p) == Url_parse(p.base_url).host

HostListed(p) ==
    LET u == Url_parse(p.base_url) IN
    u.ok /\ u.host # None /\ Listed(p.safety.allowlist_hosts, u.host)

MethodListed(p) == Listed(p.limits.allowed_methods, p.method)

RateWithin(p) == p.limits.rate_per_sec <= p.limits.max_rate_per_sec

BudgetPositive(p) == p.limits.request_budget > 0

\* positions in CheckOrder of the guardrails that p and a violate
Violated(p, a) ==
    LET hasHost == UrlHasHost(p) IN
    (IF SandboxPasses(p, a) THEN {} ELSE {1})
    \cup (IF hasHost THEN {} ELSE {2})
    \cup (IF hasHost /\ ~HostListed(p) THEN {3} ELSE {})
    \cup (IF MethodListed(p) THEN {} ELSE {4})
    \cup (IF RateWithin(p) THEN {} ELSE {5})
    \cup (IF BudgetPositive(p) THEN {} ELSE {6})

Earliest(S) == CHOOSE k \in S : \A j \in S : k <= j

Returned == pc = "fn_return"

\* p with the fields the guardrails do not name replaced by those of o
WithOther(p, o) ==
    [p EXCEPT !.name = o.name, !.endpoint = o.endpoint,
              !.limits.concurrency = o.concurrency,
              !.timeouts = [connect_ms |-> o.connect_ms, read_ms |-> o.read_ms],
              !.safety.force_headers = o.force_headers]

\* the other fields of p
Own(p) ==
    [name |-> p.name, endpoint |-> p.endpoint,
     concurrency |-> p.limits.concurrency,
     connect_ms |-> p.timeouts.connect_ms, read_ms |-> p.timeouts.read_ms,
     force_headers |-> p.safety.force_headers]

OtherFieldNames ==
    {"name", "endpoint", "concurrency", "connect_ms", "read_ms", "force_headers"}

\* the fields in which o and q differ
Differing(o, q) == { f \in OtherFieldNames : o[f] # q[f] }

\* the values of the other fields that differ from p's in no field, in one
\* field, or in all six
NearAndFar(p) ==
    LET own == Own(p)
        far == CHOOSE o \in OtherFields : Differing(o, own) = OtherFieldNames
    IN {own, far} \cup { [own EXCEPT ![f] = far[f]] : f \in OtherFieldNames }

\* ------------------------------------------------------------------------
\* Properties
\* ------------------------------------------------------------------------

\* C1: when two or more guardrails are violated at once, the result is one
\* rejection, the one of the violated guardrail that comes first in CheckOrder.
C1_EarliestViolationReported ==
    Returned =>
        LET broken == Violated(profile, args) IN
        Cardinality(broken) >= 2 =>
            /\ ~verdict.ok
            /\ Kind(verdict) = CheckOrder[Earliest(broken)]

C1_Witness ==
    /\ Returned
    /\ Violated(profile, args) = {4, 6}
    /\ profile.method = DELETE
    /\ Kind(verdict) = "MethodNotAllowed"

\* C2: require_sandbox_flag with the sandbox flag false is rejected as
\* sandbox-required whatever the other fields hold.
C2_SandboxRequiredFirst ==
    (Returned /\ profile.safety.require_sandbox_flag /\ ~args.sandbox) =>
        Kind(verdict) = "SandboxRequired"

C2_Witness ==
    /\ Returned
    /\ profile.safety.require_sandbox_flag /\ ~args.sandbox
    /\ Violated(profile, args) = {1, 2, 4, 5, 6}
    /\ Kind(verdict) = "SandboxRequired"

\* C3: the result is Ok exactly when all six conditions hold; otherwise it is
\* one of the six rejections, returned as an error value.
C3_PermittedIffAllSix ==
    Returned =>
        /\ verdict.ok <=>
             /\ SandboxPasses(profile, args)
             /\ UrlHasHost(profile)
             /\ HostListed(profile)
             /\ MethodListed(profile)
             /\ RateWithin(profile)
             /\ BudgetPositive(profile)
        /\ verdict.ok => verdict = Ok
        /\ ~verdict.ok => Kind(verdict) \in { CheckOrder[k] : k \in 1..6 }

C3_Witness ==
    /\ Returned
    /\ verdict = Ok
    /\ profile.limits.request_budget = 1
    /\ profile.safety.require_sandbox_flag /\ args.sandbox

\* C4: once the sandbox check passes, a base_url without a parsable host is
\* rejected as invalid-base-url whatever the allowlist holds, and
\* host-not-allowed is returned only for a base_url that has a host.
C4_InvalidBaseUrlDistinct ==
    (Returned /\ SandboxPasses(profile, args)) =>
        /\ ~UrlHasHost(profile) => Kind(verdict) = "InvalidBaseUrl"
        /\ Kind(verdict) = "HostNotAllowed" => UrlHasHost(profile)

C4_Witness ==
    /\ Returned
    /\ SandboxPasses(profile, args)
    /\ profile.base_url = <<"n","o","t"," ","a"," ","u","r","l">>
    /\ profile.safety.allowlist_hosts # <<>>
    /\ Kind(verdict) = "InvalidBaseUrl"

\* C5: once the sandbox check passes and base_url has host h, the result is
\* host-not-allowed exactly when no allowlist entry equals h ignoring ASCII case.
C5_HostAllowlistDefaultDeny ==
    (Returned /\ SandboxPasses(profile, args) /\ UrlHasHost(profile)) =>
        (Kind(verdict) = "HostNotAllowed" <=>
            ~Listed(profile.safety.allowlist_hosts, HostOf(profile)))

C5_Witness ==
    /\ Returned
    /\ SandboxPasses(profile, args) /\ UrlHasHost(profile)
    /\ HostOf(profile) = good_example
    /\ profile.safety.allowlist_hosts = <<Good_Example>>
    /\ Kind(verdict) # "HostNotAllowed"

\* C6: once the sandbox, URL and host checks pass, the result is
\* method-not-allowed exactly when no entry of allowed_methods equals the
\* method ignoring ASCII case.
C6_MethodPolicyDefaultDeny ==
    (Returned /\ SandboxPasses(profile, args) /\ HostListed(profile)) =>
        (Kind(verdict) = "MethodNotAllowed" <=>
            ~Listed(profile.limits.allowed_methods, profile.method))

C6_Witness ==
    /\ Returned
    /\ profile.method = get
    /\ profile.limits.allowed_methods = <<GET>>
    /\ verdict = Ok

\* C7: once the first four checks pass, the result is the rate-ceiling
\* rejection exactly when rate_per_sec > max_rate_per_sec.
C7_RateCeilingInclusive ==
    ( /\ Returned
      /\ SandboxPasses(profile, args)
      /\ HostListed(profile)
      /\ MethodListed(profile) ) =>
        (Kind(verdict) = "RateCeilingExceeded" <=>
            profile.limits.rate_per_sec > profile.limits.max_rate_per_sec)

C7_Witness ==
    /\ Returned
    /\ profile.limits.rate_per_sec = 0
    /\ profile.limits.max_rate_per_sec = 0
    /\ verdict = Ok

\* C8: the hand-off happens only after the profile was loaded and the
\* guardrails returned Ok on it; a failed load ends the run with the load
\* error and without an evaluation; a rejection ends the run with that error
\* and without a hand-off; nothing is run again.
C8_Inv ==
    /\ (pc = "session" \/ out # <<>>) =>
          /\ fs.kind = "toml"
          /\ profile = toml_from_str(fs.doc)
          /\ verdict = Ok
    /\ fs.kind # "toml" =>
          /\ profile = Unset /\ verdict = Unset /\ out = <<>>
          /\ (pc = "exit" /\ args # Unset) =>
                /\ ~result.ok
                /\ result.msg \in { "failed to read profile: {path}",
                                    "invalid TOML in profile" }
    /\ (verdict # Unset /\ verdict # Ok) =>
          /\ pc = "exit" /\ result = verdict /\ out = <<>>
          /\ Kind(verdict) \in { CheckOrder[k] : k \in 1..6 }

C8_Step ==
    /\ pc # "exit"
    /\ verdict' # verdict => (profile # Unset /\ profile' = profile /\ verdict = Unset)
    /\ profile' # profile => profile = Unset
    /\ out' # out => (verdict = Ok /\ verdict' = verdict /\ out = <<>>)

C8_HandOffOnlyAfterGuardrails == []C8_Inv /\ [][C8_Step]_vars

C8_Witness ==
    /\ pc = "exit"
    /\ Len(out) = 2
    /\ verdict = Ok
    /\ result = Ok

\* C9: the result depends on no field other than the nine the checks name,
\* and the call leaves the profile and the flags as they were.
C9_Inv ==
    Returned =>
        \A o \in NearAndFar(profile), d \in BOOLEAN :
            enforce_guardrails(WithOther(profile, o), [args EXCEPT !.dry_run = d])
                = verdict

C9_VerdictIgnoresOtherFields ==
    []C9_Inv /\ [][profile' = profile /\ args' = args]_vars

C9_Witness ==
    /\ Returned
    /\ verdict = Ok
    /\ \E o \in NearAndFar(profile) :
         /\ Differing(o, Own(profile)) = OtherFieldNames
         /\ enforce_guardrails(WithOther(profile, o),
                               [args EXCEPT !.dry_run = ~@]) = verdict

\* C10: a run without --sandbox on the command line against a profile with
\* require_sandbox_flag = true passes sandbox = false to enforce_guardrails,
\* ends with the sandbox-required error and never reaches the hand-off.
C10_NoSandboxFlagRejected ==
    ( /\ cmdline \subseteq KnownFlags
      /\ "--sandbox" \notin cmdline
      /\ fs.kind = "toml"
      /\ fs.doc.safety.require_sandbox_flag ) =>
        /\ pc = "enforce_guardrails" => ~args.sandbox
        /\ pc # "session"
        /\ out = <<>>
        /\ pc = "exit" =>
             result = Err("sandbox flag required: re-run with --sandbox", None)

====
